---- MODULE Spec2Model ----
(***************************************************************************)
(* A model of catt/stream_info.py: the StreamInfo object, its constructor, *)
(* its read-only properties and set_playlist_entry.                        *)
(*                                                                         *)
(* Python strings are sequences of tokens (so "://" in s, Path(s).name and *)
(* s.split(".")[0] are computed, not assumed); Python dicts are functions  *)
(* from key names to values, a missing key being a key outside DOMAIN.     *)
(* A value handed back to the caller is tagged (None, PyStr, PyInt, PyList).     *)
(* The extraction engine (youtube_dl), netifaces and guess_mime are the    *)
(* environment: their answers are drawn from bounded pools.                *)
(***************************************************************************)
EXTENDS Integers, Sequences, FiniteSets, TLC

VARIABLES
    pc,      \* "new" before StreamInfo(...) ran, "constructed" after it returned, "raised" if it raised
    self,    \* the instance's attributes (its __dict__): attribute name -> value
    args,    \* the arguments the constructor was called with: [video_url, model]
    ctor,    \* the engine calls made by the constructor, in order
    born,    \* the source kinds that held when the constructor returned
    last,    \* the last operation on the instance: [op, arg, error, result, engine]
    world    \* which bounded universe the environment answers from

vars == <<pc, self, args, ctor, born, last, world>>

\* ------------------------------------------------------------------ bounds

MaxEntries == 2
MaxFormats == 3

\* ----------------------------------------------------------- python values

None == [t |-> "None"]
PyStr(s) == [t |-> "str", v |-> s]
PyInt(n) == [t |-> "int", v |-> n]
PyList(l) == [t |-> "list", v |-> l]
PyBool(b) == [t |-> "bool", v |-> b]

NoError == "none"
KeyError == "KeyError"
IndexError == "IndexError"
AttributeError == "AttributeError"
TypeError == "TypeError"
DownloadError == "DownloadError"
ExtractorError == "ExtractorError"
StopIteration == "StopIteration"

\* What an operation hands back: the exception raised (or NoError), the value
\* returned, and the engine calls it made.
Return(v, eng) == [error |-> NoError, result |-> v, engine |-> eng]
Raise(e, eng) == [error |-> e, result |-> None, engine |-> eng]

\* One call of the extraction engine.
Call(name, arg, ret, val) == [call |-> name, arg |-> arg, ret |-> ret, val |-> val]

Has(d, k) == k \in DOMAIN d
\* d.get(k) is truthy (present and not the empty string)
Truthy(d, k) == Has(d, k) /\ d[k] # <<>>
\* d.get(k): the value tagged as a string, or None
GetStr(d, k) == IF Has(d, k) THEN PyStr(d[k]) ELSE None

Last(s) == s[Len(s)]
\* "sep in s" for a separator token
Contains(s, sep) == \E i \in 1..Len(s) : s[i] = sep
\* s.split(sep)[0]
SplitFirst(s, sep) ==
    IF Contains(s, sep)
    THEN SubSeq(s, 1, (CHOOSE i \in 1..Len(s) : s[i] = sep /\ \A j \in 1..(i - 1) : s[j] # sep) - 1)
    ELSE s
\* Path(s).name: what follows the last "/"
PathName(s) ==
    IF Contains(s, "/")
    THEN SubSeq(s, (CHOOSE i \in 1..Len(s) : s[i] = "/" /\ \A j \in (i + 1)..Len(s) : s[j] # "/") + 1, Len(s))
    ELSE s
\* seq[n] with Python's indexing: 0-based, negative from the end
InRange(seq, n) == -Len(seq) <= n /\ n < Len(seq)
PyIndex(seq, n) == IF n >= 0 THEN seq[n + 1] ELSE seq[Len(seq) + n + 1]
\* All sequences over S of length at most n
SeqsUpTo(S, n) == UNION {[1..k -> S] : k \in 0..n}

\* --------------------------------------------------------- module constants

AUDIO_MODELS == {<<"Google Inc.", "Chromecast Audio">>}
ULTRA_MODELS == {<<"Xiaomi", "MIBOX3">>, <<"Google Inc.", "Chromecast Ultra">>}

\* A format expression is a sequence of tokens: a selector name, a filter
\* "[key op value]", or the alternative separator "/".  String concatenation
\* of the source is \o.
Name(n) == [tok |-> "name", name |-> n]
NumFilter(k, o, n) == [tok |-> "filter", key |-> k, op |-> o, num |-> n]
StrFilter(k, o, s) == [tok |-> "filter", key |-> k, op |-> o, str |-> s]
Slash == [tok |-> "/"]

BEST_MAX_2K == <<Name("best"), NumFilter("width", "<=?", 1920), NumFilter("height", "<=?", 1080)>>
BEST_MAX_4K == <<Name("best"), NumFilter("width", "<=?", 3840), NumFilter("height", "<=?", 2160)>>
BEST_ONLY_AUDIO == <<Name("bestaudio")>>
BEST_FALLBACK == <<Slash, Name("best")>>
MAX_50FPS == <<NumFilter("fps", "<=?", 50)>>
TWITCH_NO_60FPS == <<StrFilter("format_id", "!=", "1080p60__source_"), StrFilter("format_id", "!=", "720p60")>>
MIXCLOUD_NO_DASH == <<StrFilter("format_id", "!=", "dash-a1-x3")>>
\* The audio expression without the dash-a1-x3 exclusion
AUDIO_FORMAT_NoExclusion == BEST_ONLY_AUDIO \o BEST_FALLBACK
AUDIO_FORMAT == BEST_ONLY_AUDIO \o MIXCLOUD_NO_DASH \o BEST_FALLBACK
ULTRA_FORMAT == BEST_MAX_4K
\* The standard expression without the format_id exclusions
STANDARD_FORMAT_NoExclusion == BEST_MAX_2K \o MAX_50FPS
STANDARD_FORMAT == BEST_MAX_2K \o MAX_50FPS \o TWITCH_NO_60FPS

YouTubeExtractorFailedException == "YouTubeExtractorFailedException"

\* ------------------------------------------------------------- environment

\* The constructor's inputs.  model=None, the default, is the empty tuple, so
\* that "model in AUDIO_MODELS" compares tuples with tuples.
NoModel == <<>>
LocalReferences == {<<"movie.mp4">>, <<"dir", "/", "song.mp3">>, <<"http", ":", "/", "x.mp4">>}
RemoteReferences == {<<"http", "://", "host", "/", "page">>}
Models ==
    IF world = "formats"
    THEN {NoModel, <<"Google Inc.", "Chromecast Audio">>, <<"Google Inc.", "Chromecast Ultra">>,
          <<"Xiaomi", "MIBOX3">>, <<"Google Inc.", "Chromecast">>}
    ELSE {NoModel, <<"Google Inc.", "Chromecast Audio">>}

\* netifaces: the address of the default gateway's interface.
LocalIps == {"192.168.1.10"}

\* The stubs a playlist's shallow result lists.  The third has no id; the
\* fourth is a redirect (it carries ie_key and the url to extract again).
EntryUrl == <<"http", "://", "host", "/", "e4">>
Stubs ==
    { [id |-> <<"e1">>, title |-> <<"E1">>, thumbnail |-> <<"t1">>],
      [title |-> <<"E3">>],
      [ie_key |-> <<"Youtube">>, url |-> EntryUrl, id |-> <<"e4">>, title |-> <<"stub4">>] }

\* What extract_info(url, process=False) may return: an item, a direct link
\* to a media file (no title), a redirect, or a playlist.
RedirectUrl == <<"http", "://", "host", "/", "target">>
ItemPreinfos ==
    { [extractor |-> <<"youtube">>, id |-> <<"v1">>, title |-> <<"T1">>,
       thumbnail |-> <<"th1">>, webpage_url_basename |-> <<"watch">>],
      [extractor |-> <<"generic">>, id |-> <<"clip">>,
       webpage_url_basename |-> <<"clip", ".", "mp4">>],
      [extractor |-> <<"youtube", ":", "channel">>, ie_key |-> <<"YoutubePlaylist">>,
       url |-> RedirectUrl, id |-> <<"chan">>, title |-> <<"Chan">>,
       webpage_url_basename |-> <<"chan">>] }
PlaylistPreinfos ==
    { [extractor |-> <<"youtube", ":", "playlist">>, id |-> <<"pl">>, title |-> <<"PL">>,
       entries |-> es] : es \in SeqsUpTo(Stubs, MaxEntries) }
\* What the engine may answer for a url: a playlist stub's url leads to an
\* item or a redirect, any other url to any of the above.
Preinfos(url) ==
    IF world = "formats" \/ url = EntryUrl THEN ItemPreinfos
    ELSE ItemPreinfos \cup PlaylistPreinfos

\* The formats process_ie_result may list, worst first.
Formats ==
    { [format_id |-> "mp3", url |-> <<"uA">>, vcodec |-> "none", acodec |-> "mp3"],
      [format_id |-> "720p", url |-> <<"uB">>, vcodec |-> "h264", acodec |-> "aac",
       width |-> 1280, height |-> 720, fps |-> 30],
      [format_id |-> "dash-a1-x3", url |-> <<"uC">>, vcodec |-> "none", acodec |-> "aac"],
      [format_id |-> "1080p60__source_", url |-> <<"uD">>, vcodec |-> "h264", acodec |-> "aac",
       width |-> 1920, height |-> 1080],
      [format_id |-> "720p60", url |-> <<"uE">>, vcodec |-> "h264", acodec |-> "aac",
       width |-> 1280, height |-> 720, fps |-> 60],
      [format_id |-> "2160p", url |-> <<"uF">>, vcodec |-> "vp9", acodec |-> "opus",
       width |-> 3840, height |-> 2160, fps |-> 30] }
FormatA == CHOOSE f \in Formats : f.format_id = "mp3"
FormatB == CHOOSE f \in Formats : f.format_id = "720p"
FormatC == CHOOSE f \in Formats : f.format_id = "dash-a1-x3"
FormatD == CHOOSE f \in Formats : f.format_id = "1080p60__source_"

\* What process_ie_result(preinfo, download=False) may return: an info with
\* a format list (and, as its own url, that of the best format listed), or
\* a direct link, which has a url and no format list.
InfoWith(fs) ==
    IF fs = <<>> THEN [webpage_url_basename |-> <<"watch">>, formats |-> fs]
    ELSE [url |-> fs[Len(fs)].url, webpage_url_basename |-> <<"watch">>, formats |-> fs]
DirectInfo == [url |-> <<"uDirect">>, direct |-> TRUE, webpage_url_basename |-> <<"clip", ".", "mp4">>]
Infos ==
    IF world = "formats"
    THEN {InfoWith(fs) : fs \in SeqsUpTo(Formats, MaxFormats)}
    ELSE {DirectInfo, InfoWith(<<FormatA, FormatB, FormatC>>), InfoWith(<<FormatD>>), InfoWith(<<>>)}

\* ------------------------------------------------------- extraction engine

\* A format passes "[key op value]".  "<=?" lets a format through when it
\* does not know the key; "!=" without "?" does not.
PassFilter(flt, f) ==
    IF flt.op = "<=?" THEN ~Has(f, flt.key) \/ f[flt.key] <= flt.num
    ELSE IF flt.op = "!=" THEN Has(f, flt.key) /\ f[flt.key] # flt.str
    ELSE FALSE
PassAll(flts, f) == \A i \in 1..Len(flts) : PassFilter(flts[i], f)

\* The expression's alternatives, split at "/" (first that yields wins).
RECURSIVE Alternatives(_)
Alternatives(expr) ==
    IF ~Contains(expr, Slash) THEN <<expr>>
    ELSE LET i == CHOOSE k \in 1..Len(expr) : expr[k] = Slash /\ \A j \in 1..(k - 1) : expr[j] # Slash
         IN <<SubSeq(expr, 1, i - 1)>> \o Alternatives(SubSeq(expr, i + 1, Len(expr)))

IsAudioOnly(f) == Has(f, "vcodec") /\ f.vcodec = "none"
IsAudioVideo(f) == ~(Has(f, "vcodec") /\ f.vcodec = "none") /\ ~(Has(f, "acodec") /\ f.acodec = "none")

\* One alternative, "name[filter]...", on ctx: the ways the selector's first
\* step can end.  ctx["formats"] of a ctx without formats is a KeyError.
\* "best" with formats left but none with audio and video is the engine's
\* incomplete-formats case: it yields the best format left or nothing, or
\* fails on a ctx that does not say which (KeyError).
SelectOne(alt, ctx) ==
    IF ~Has(ctx, "formats") THEN {[kind |-> KeyError]}
    ELSE LET name == alt[1].name
             left == SelectSeq(ctx.formats, LAMBDA f : PassAll(Tail(alt), f))
             audio == SelectSeq(left, IsAudioOnly)
             av == SelectSeq(left, IsAudioVideo)
         IN IF left = <<>> THEN {[kind |-> StopIteration]}
            ELSE IF name = "bestaudio"
                 THEN IF audio # <<>> THEN {[kind |-> "yield", format |-> Last(audio)]}
                      ELSE {[kind |-> StopIteration]}
            ELSE IF av # <<>> THEN {[kind |-> "yield", format |-> Last(av)]}
            ELSE {[kind |-> KeyError], [kind |-> StopIteration], [kind |-> "yield", format |-> Last(left)]}

\* next(build_format_selector(expr)(ctx))
RECURSIVE PickFirst(_, _)
PickFirst(alts, ctx) ==
    IF alts = <<>> THEN {[kind |-> StopIteration]}
    ELSE UNION { IF r.kind = StopIteration THEN PickFirst(Tail(alts), ctx) ELSE {r} :
                 r \in SelectOne(Head(alts), ctx) }
FormatSelector(expr, ctx) == PickFirst(Alternatives(expr), ctx)

\* guess_mime(name)
GuessMime(name) == {None, PyStr(<<"video/mp4">>)}

\* --------------------------------------------------------- private methods

\* _get_local_ip
GetLocalIp == LocalIps

\* randrange with the stop value included
RandRangeInclusive(a, b) == a..b

\* random.randrange(a, b)
RandRange(a, b) == a..(b - 1)

\* _get_stream_preinfo with the DownloadError left as it is
GetStreamPreinfoUncaught(video_url) ==
    { Return(p, <<Call("extract_info", video_url, "ok", p)>>) : p \in Preinfos(video_url) }
    \cup { Raise(DownloadError, <<Call("extract_info", video_url, DownloadError, None)>>) }

\* _get_stream_preinfo: extract_info(video_url, process=False); DownloadError
\* becomes YouTubeExtractorFailedException.
GetStreamPreinfo(video_url) ==
    { Return(p, <<Call("extract_info", video_url, "ok", p)>>) : p \in Preinfos(video_url) }
    \cup { Raise(YouTubeExtractorFailedException, <<Call("extract_info", video_url, DownloadError, None)>>) }

\* _get_stream_info catching ExtractorError alone
GetStreamInfoExtractorOnly(preinfo) ==
    IF preinfo = None
    THEN { Raise(AttributeError, <<Call("process_ie_result", preinfo, AttributeError, None)>>) }
    ELSE { Return(i, <<Call("process_ie_result", preinfo, "ok", i)>>) : i \in Infos }
         \cup { Raise(YouTubeExtractorFailedException, <<Call("process_ie_result", preinfo, ExtractorError, None)>>),
                Raise(DownloadError, <<Call("process_ie_result", preinfo, DownloadError, None)>>) }

\* _get_stream_info: process_ie_result(preinfo, download=False); ExtractorError
\* and DownloadError become YouTubeExtractorFailedException.  The engine
\* reads preinfo.get(...), which None does not have.
GetStreamInfo(preinfo) ==
    IF preinfo = None
    THEN { Raise(AttributeError, <<Call("process_ie_result", preinfo, AttributeError, None)>>) }
    ELSE { Return(i, <<Call("process_ie_result", preinfo, "ok", i)>>) : i \in Infos }
         \cup { Raise(YouTubeExtractorFailedException, <<Call("process_ie_result", preinfo, e, None)>>) :
                 e \in {ExtractorError, DownloadError} }

\* _get_stream_url taking info itself when the selector yields nothing
GetStreamUrlFallback(s, info) ==
    { LET eng == <<Call("format_selector", info, r.kind, None)>>
          best_format == IF r.kind \in {KeyError, StopIteration} THEN info ELSE r.format
      IN IF Has(best_format, "url") THEN Return(PyStr(best_format.url), eng)
         ELSE Raise(KeyError, eng) :
      r \in FormatSelector(s._best_format, info) }

\* _get_stream_url: the first format the selector yields; no format is
\* YouTubeExtractorFailedException, a KeyError makes info itself the format.
GetStreamUrl(s, info) ==
    { LET eng == <<Call("format_selector", info, r.kind, None)>>
          best_format == IF r.kind = KeyError THEN info ELSE r.format
      IN IF r.kind = StopIteration THEN Raise(YouTubeExtractorFailedException, eng)
         ELSE IF Has(best_format, "url") THEN Return(PyStr(best_format.url), eng)
         ELSE Raise(KeyError, eng) :
      r \in FormatSelector(s._best_format, info) }

\* is_playlist
IsPlaylist(s) ==
    IF s.is_standard_website THEN FALSE
    ELSE ~s.is_local_file /\ Has(s._preinfo, "entries")

\* is_remote_file
IsRemoteFile(s) == ~s.is_local_file /\ ~IsPlaylist(s)

\* The source kinds whose predicate holds of the instance.
Kinds(s) ==
    {k \in {"LocalFile", "Playlist", "RemoteItem", "OpaqueWebsite"} :
        \/ k = "LocalFile" /\ s.is_local_file
        \/ k = "Playlist" /\ IsPlaylist(s)
        \/ k = "RemoteItem" /\ IsRemoteFile(s)
        \/ k = "OpaqueWebsite" /\ s.is_standard_website}

\* ------------------------------------------------------------- constructor

\* What a constructor step leaves: the attributes set so far, the exception
\* in flight (or NoError) and the engine calls made.
Step(s, e, eng) == [self |-> s, error |-> e, engine |-> eng]
With(s, k, v) == (k :> v) @@ s

\* Lines 45-48 with the redirect followed for as long as the result carries
\* ie_key (here: up to twice)
InitPreinfoFollow(s, video_url) ==
    UNION { IF o1.error # NoError THEN {Step(s, o1.error, o1.engine)}
            ELSE LET s1 == With(s, "_preinfo", o1.result)
                 IN IF ~Truthy(s1._preinfo, "ie_key") THEN {Step(s1, NoError, o1.engine)}
                    ELSE UNION { IF o2.error # NoError THEN {Step(s1, o2.error, o1.engine \o o2.engine)}
                                 ELSE LET s2 == With(s1, "_preinfo", o2.result)
                                      IN IF ~Truthy(s2._preinfo, "ie_key")
                                         THEN {Step(s2, NoError, o1.engine \o o2.engine)}
                                         ELSE { IF o3.error # NoError
                                                THEN Step(s2, o3.error, o1.engine \o o2.engine \o o3.engine)
                                                ELSE Step(With(s2, "_preinfo", o3.result), NoError,
                                                          o1.engine \o o2.engine \o o3.engine) :
                                                o3 \in GetStreamPreinfo(s2._preinfo.url) } :
                                 o2 \in GetStreamPreinfo(s1._preinfo.url) } :
            o1 \in GetStreamPreinfo(video_url) }

\* Lines 45-48: the shallow extraction, run again on the redirect target
\* when the first result carries ie_key.
InitPreinfo(s, video_url) ==
    UNION { IF o1.error # NoError THEN {Step(s, o1.error, o1.engine)}
            ELSE LET s1 == With(s, "_preinfo", o1.result)
                 IN IF ~Truthy(s1._preinfo, "ie_key") THEN {Step(s1, NoError, o1.engine)}
                    ELSE IF ~Has(s1._preinfo, "url") THEN {Step(s1, KeyError, o1.engine)}
                    ELSE { IF o2.error # NoError THEN Step(s1, o2.error, o1.engine \o o2.engine)
                           ELSE Step(With(s1, "_preinfo", o2.result), NoError, o1.engine \o o2.engine) :
                           o2 \in GetStreamPreinfo(s1._preinfo.url) } :
            o1 \in GetStreamPreinfo(video_url) }

\* Lines 50-55: the format expression of the device.
BestFormat(model) ==
    IF model \in AUDIO_MODELS THEN AUDIO_FORMAT
    ELSE IF model \in ULTRA_MODELS THEN ULTRA_FORMAT
    ELSE STANDARD_FORMAT

\* Lines 57-61: a playlist keeps its entries; anything else is processed.
InitInfo(s) ==
    IF IsPlaylist(s)
    THEN {Step(With(With(s, "_entries", s._preinfo.entries), "_active_entry", None), NoError, <<>>)}
    ELSE { IF o.error # NoError THEN Step(s, o.error, o.engine)
           ELSE Step(With(s, "_info", o.result), NoError, o.engine) :
           o \in GetStreamInfo(s._preinfo) }

\* Lines 63-65: except YouTubeExtractorFailedException.
Except(st, video_url) ==
    IF st.error = YouTubeExtractorFailedException
    THEN Step([With(st.self, "_video_url", video_url) EXCEPT !.is_standard_website = TRUE], NoError, st.engine)
    ELSE st

\* StreamInfo.__init__(video_url, model)
StreamInfoInit(video_url, model) ==
    IF ~Contains(video_url, "://")
    THEN { Step([_local_file |-> video_url, local_ip |-> ip, port |-> port,
                 is_local_file |-> TRUE, is_standard_website |-> FALSE], NoError, <<>>) :
           <<ip, port>> \in GetLocalIp \X RandRange(45000, 47000) }
    ELSE LET s0 == [is_local_file |-> FALSE, local_ip |-> None, port |-> None,
                    is_standard_website |-> FALSE, _ydl |-> "YoutubeDL"]
             Body == UNION { IF a.error # NoError THEN {a}
                             ELSE { Step(b.self, b.error, a.engine \o b.engine) :
                                    b \in InitInfo(With(a.self, "_best_format", BestFormat(model))) } :
                             a \in InitPreinfo(s0, video_url) }
         IN { Except(st, video_url) : st \in Body }

\* -------------------------------------------------------------- properties
\* Each is the set of ways the read can end.

Ret(v) == {Return(v, <<>>)}
Err(e) == {Raise(e, <<>>)}

\* video_url
VideoUrl(s) ==
    IF s.is_standard_website THEN Ret(PyStr(s._video_url))
    ELSE IF s.is_local_file
         THEN Ret(PyStr(<<"http://", s.local_ip, ":", ToString(s.port), "/?loaded_from_catt">>))
    ELSE IF IsPlaylist(s) THEN Ret(None)
    ELSE GetStreamUrl(s, s._info)

\* extractor
Extractor(s) ==
    IF s.is_standard_website THEN Ret(None)
    ELSE IF ~s.is_local_file
         THEN IF Has(s._preinfo, "extractor") THEN Ret(PyStr(SplitFirst(s._preinfo.extractor, ":")))
              ELSE Err(KeyError)
    ELSE Ret(None)

\* video_title
VideoTitle(s) ==
    IF s.is_standard_website THEN VideoUrl(s)
    ELSE IF s.is_local_file THEN Ret(PyStr(PathName(s._local_file)))
    ELSE IF IsPlaylist(s) THEN Ret(None)
    ELSE IF Has(s._preinfo, "title") THEN Ret(PyStr(s._preinfo.title))
    ELSE IF Has(s._preinfo, "webpage_url_basename")
         THEN Ret(PyStr(SplitFirst(s._preinfo.webpage_url_basename, ".")))
    ELSE Err(KeyError)

\* video_id
VideoId(s) ==
    IF s.is_standard_website THEN VideoUrl(s)
    ELSE IF IsRemoteFile(s)
         THEN IF Has(s._preinfo, "id") THEN Ret(PyStr(s._preinfo.id)) ELSE Err(KeyError)
    ELSE Ret(None)

\* video_thumbnail
VideoThumbnail(s) ==
    IF s.is_standard_website THEN Ret(None)
    ELSE IF IsRemoteFile(s) THEN Ret(GetStr(s._preinfo, "thumbnail"))
    ELSE Ret(None)

\* guessed_content_type
GuessedContentType(s) ==
    IF s.is_standard_website THEN Ret(None)
    ELSE IF s.is_local_file
         THEN UNION { IF t.error # NoError THEN {t} ELSE {Return(m, t.engine) : m \in GuessMime(t.result.v)} :
                      t \in VideoTitle(s) }
    ELSE IF IsRemoteFile(s) /\ Has(s._info, "direct") /\ s._info.direct
         THEN IF Has(s._info, "webpage_url_basename")
              THEN {Return(m, <<>>) : m \in GuessMime(s._info.webpage_url_basename)}
              ELSE Err(KeyError)
    ELSE Ret(None)

\* playlist_length
PlaylistLength(s) == IF IsPlaylist(s) THEN Ret(PyInt(Len(s._entries))) ELSE Ret(None)

\* playlist_all_ids
PlaylistAllIds(s) ==
    IF IsPlaylist(s) /\ s._entries # <<>> /\ Truthy(s._entries[1], "id")
    THEN IF \A i \in 1..Len(s._entries) : Has(s._entries[i], "id")
         THEN Ret(PyList([i \in 1..Len(s._entries) |-> s._entries[i].id]))
         ELSE Err(KeyError)
    ELSE Ret(None)

\* playlist_title
PlaylistTitle(s) ==
    IF IsPlaylist(s)
    THEN IF Has(s._preinfo, "title") THEN Ret(PyStr(s._preinfo.title)) ELSE Err(KeyError)
    ELSE Ret(None)

\* playlist_id
PlaylistId(s) ==
    IF IsPlaylist(s)
    THEN IF Has(s._preinfo, "id") THEN Ret(PyStr(s._preinfo.id)) ELSE Err(KeyError)
    ELSE Ret(None)

\* self._active_entry[key]: None is not subscriptable
ActiveEntryItem(s, key) ==
    IF s._active_entry = None THEN Err(TypeError)
    ELSE IF Has(s._active_entry, key) THEN Ret(PyStr(s._active_entry[key]))
    ELSE Err(KeyError)

\* playlist_entry_title
PlaylistEntryTitle(s) == IF IsPlaylist(s) THEN ActiveEntryItem(s, "title") ELSE Ret(None)

\* playlist_entry_id
PlaylistEntryId(s) == IF IsPlaylist(s) THEN ActiveEntryItem(s, "id") ELSE Ret(None)

\* playlist_entry_thumbnail: None has no get
PlaylistEntryThumbnail(s) ==
    IF IsPlaylist(s)
    THEN IF s._active_entry = None THEN Err(AttributeError)
         ELSE Ret(GetStr(s._active_entry, "thumbnail"))
    ELSE Ret(None)

\* playlist_entry_url: the active entry is processed and a format selected
\* on every read.
PlaylistEntryUrl(s) ==
    IF IsPlaylist(s)
    THEN UNION { IF i.error # NoError THEN {i}
                 ELSE {[u EXCEPT !.engine = i.engine \o u.engine] : u \in GetStreamUrl(s, i.result)} :
                 i \in GetStreamInfo(s._active_entry) }
    ELSE Ret(None)

\* set_playlist_entry storing the stub whether or not it carries ie_key
SetPlaylistEntryNoRefetch(s, number) ==
    IF ~IsPlaylist(s) THEN {[self |-> s, error |-> NoError, result |-> None, engine |-> <<>>]}
    ELSE IF ~InRange(s._entries, number)
         THEN {[self |-> s, error |-> IndexError, result |-> None, engine |-> <<>>]}
    ELSE {[self |-> [s EXCEPT !._active_entry = PyIndex(s._entries, number)],
           error |-> NoError, result |-> None, engine |-> <<>>]}

\* set_playlist_entry(number): the ways the call can end, each with the
\* attributes it leaves.
Leaves(s, o) == [self |-> s, error |-> o.error, result |-> o.result, engine |-> o.engine]
SetPlaylistEntry(s, number) ==
    IF ~IsPlaylist(s) THEN {Leaves(s, Return(None, <<>>))}
    ELSE IF ~InRange(s._entries, number) THEN {Leaves(s, Raise(IndexError, <<>>))}
    ELSE LET stub == PyIndex(s._entries, number)
         IN IF Truthy(stub, "ie_key")
            THEN IF ~Has(stub, "url") THEN {Leaves(s, Raise(KeyError, <<>>))}
                 ELSE { IF o.error # NoError THEN Leaves(s, o)
                        ELSE Leaves([s EXCEPT !._active_entry = o.result], Return(None, o.engine)) :
                        o \in GetStreamPreinfo(stub.url) }
            ELSE {Leaves([s EXCEPT !._active_entry = stub], Return(None, <<>>))}

\* ----------------------------------------------------------------- actions

Nothing == [op |-> "none", arg |-> None, error |-> NoError, result |-> None, engine |-> <<>>]
Did(op, arg, o) == [op |-> op, arg |-> arg, error |-> o.error, result |-> o.result, engine |-> o.engine]

References == IF world = "formats" THEN RemoteReferences ELSE LocalReferences \cup RemoteReferences
Numbers == (0 - MaxEntries)..MaxEntries

Init ==
    /\ pc = "new"
    /\ self = <<>>
    /\ args = <<>>
    /\ ctor = <<>>
    /\ born = {}
    /\ last = Nothing
    /\ world = "main"

InitFormats ==
    /\ pc = "new"
    /\ self = <<>>
    /\ args = <<>>
    /\ ctor = <<>>
    /\ born = {}
    /\ last = Nothing
    /\ world = "formats"

\* StreamInfo(video_url, model)
Construct ==
    /\ pc = "new"
    /\ \E video_url \in References, model \in Models :
          \E st \in StreamInfoInit(video_url, model) :
             /\ pc' = IF st.error = NoError THEN "constructed" ELSE "raised"
             /\ self' = st.self
             /\ args' = [video_url |-> video_url, model |-> model]
             /\ ctor' = st.engine
             /\ born' = IF st.error = NoError THEN Kinds(st.self) ELSE {}
             /\ last' = Did("__init__", None, [error |-> st.error, result |-> None, engine |-> st.engine])
    /\ UNCHANGED world

\* A property read: the instance is left as it is.
Read(op, outcomes) ==
    /\ pc = "constructed"
    /\ \E o \in outcomes : last' = Did(op, None, o)
    /\ UNCHANGED <<pc, self, args, ctor, born, world>>

ReadIsRemoteFile == Read("is_remote_file", Ret(PyBool(IsRemoteFile(self))))
ReadIsPlaylist == Read("is_playlist", Ret(PyBool(IsPlaylist(self))))
ReadExtractor == Read("extractor", Extractor(self))
ReadVideoTitle == Read("video_title", VideoTitle(self))
ReadVideoUrl == Read("video_url", VideoUrl(self))
ReadVideoId == Read("video_id", VideoId(self))
ReadVideoThumbnail == Read("video_thumbnail", VideoThumbnail(self))
ReadGuessedContentType == Read("guessed_content_type", GuessedContentType(self))
ReadPlaylistLength == Read("playlist_length", PlaylistLength(self))
ReadPlaylistAllIds == Read("playlist_all_ids", PlaylistAllIds(self))
ReadPlaylistTitle == Read("playlist_title", PlaylistTitle(self))
ReadPlaylistId == Read("playlist_id", PlaylistId(self))
ReadPlaylistEntryTitle == Read("playlist_entry_title", PlaylistEntryTitle(self))
ReadPlaylistEntryUrl == Read("playlist_entry_url", PlaylistEntryUrl(self))
ReadPlaylistEntryId == Read("playlist_entry_id", PlaylistEntryId(self))
ReadPlaylistEntryThumbnail == Read("playlist_entry_thumbnail", PlaylistEntryThumbnail(self))

\* set_playlist_entry(number)
CallSetPlaylistEntry ==
    /\ pc = "constructed"
    /\ \E number \in Numbers :
          \E o \in SetPlaylistEntry(self, number) :
             /\ self' = o.self
             /\ last' = Did("set_playlist_entry", PyInt(number), o)
    /\ UNCHANGED <<pc, args, ctor, born, world>>

Next ==
    \/ Construct
    \/ ReadIsRemoteFile
    \/ ReadIsPlaylist
    \/ ReadExtractor
    \/ ReadVideoTitle
    \/ ReadVideoUrl
    \/ ReadVideoId
    \/ ReadVideoThumbnail
    \/ ReadGuessedContentType
    \/ ReadPlaylistLength
    \/ ReadPlaylistAllIds
    \/ ReadPlaylistTitle
    \/ ReadPlaylistId
    \/ ReadPlaylistEntryTitle
    \/ ReadPlaylistEntryUrl
    \/ ReadPlaylistEntryId
    \/ ReadPlaylistEntryThumbnail
    \/ CallSetPlaylistEntry

Spec == Init /\ [][Next]_vars

\* Format selection alone: every device, every format list up to MaxFormats.
NextFormats ==
    \/ Construct
    \/ ReadVideoUrl

SpecFormats == InitFormats /\ [][NextFormats]_vars

\* ------------------------------------------------------------------ claims

Constructed == pc = "constructed"
Ok(v) == last.error = NoError /\ last.result = v
\* The calls of one engine entry point among eng
CallsOf(eng, name) == {i \in 1..Len(eng) : eng[i].call = name}
\* The constructor's call i ended with one of rets
CtorCall(i, name, rets) == i <= Len(ctor) /\ ctor[i].call = name /\ ctor[i].ret \in rets

\* C1: once constructed, exactly one of is_local_file, is_playlist,
\* is_remote_file and is_standard_website holds of the instance, and the
\* kind that held when the constructor returned is the kind that holds
\* after any reads and set_playlist_entry calls.
C1_ExactlyOneKind ==
    Constructed => Cardinality(Kinds(self)) = 1 /\ Kinds(self) = born

\* C2: a reference without "://" makes a local file: video_url reads
\* "http://<local_ip>:<port>/?loaded_from_catt" with 45000 <= port < 47000,
\* and neither the constructor nor any read calls the extraction engine.
C2_LocalFile ==
    (pc # "new" /\ ~Contains(args.video_url, "://")) =>
        /\ Constructed
        /\ Kinds(self) = {"LocalFile"}
        /\ 45000 <= self.port /\ self.port < 47000
        /\ self.local_ip \in LocalIps
        /\ ctor = <<>> /\ last.engine = <<>>
        /\ last.op = "video_url" =>
              Ok(PyStr(<<"http://", self.local_ip, ":", ToString(self.port), "/?loaded_from_catt">>))
C2_Witness ==
    /\ Constructed /\ args.video_url = <<"dir", "/", "song.mp3">>
    /\ self.port = 46999
    /\ last.op = "video_url" /\ last.result = PyStr(<<"http://", "192.168.1.10", ":", "46999", "/?loaded_from_catt">>)

\* C3: when extract_info ends in DownloadError in the constructor, on the
\* first call or on the redirect's, the constructor returns normally, the
\* instance is a standard website and video_url is the reference given.
ShallowFailed == \E i \in 1..Len(ctor) : CtorCall(i, "extract_info", {DownloadError})
C3_ShallowFailureDegrades ==
    (pc # "new" /\ ShallowFailed) =>
        /\ Constructed
        /\ last.op = "__init__" => last.error = NoError
        /\ self.is_standard_website /\ ~self.is_local_file /\ ~IsPlaylist(self)
        /\ "OpaqueWebsite" \in born
        /\ last.op = "video_url" => Ok(PyStr(args.video_url))
C3_Witness ==
    /\ Constructed /\ CtorCall(1, "extract_info", {"ok"}) /\ CtorCall(2, "extract_info", {DownloadError})
    /\ last.op = "video_url" /\ Ok(PyStr(args.video_url))

\* C4: when process_ie_result ends in ExtractorError or DownloadError in the
\* constructor, the constructor returns normally and the instance is a
\* standard website: video_url and video_title are the reference given and
\* video_thumbnail is None.
DeepFailed == \E i \in 1..Len(ctor) : CtorCall(i, "process_ie_result", {ExtractorError, DownloadError})
C4_DeepFailureDegrades ==
    (pc # "new" /\ DeepFailed) =>
        /\ Constructed
        /\ last.op = "__init__" => last.error = NoError
        /\ self.is_standard_website /\ ~self.is_local_file /\ ~IsPlaylist(self)
        /\ ~Has(self._preinfo, "entries")
        /\ last.op = "video_url" => Ok(PyStr(args.video_url))
        /\ last.op = "video_title" => Ok(PyStr(args.video_url))
        /\ last.op = "video_thumbnail" => Ok(None)
C4_Witness ==
    /\ Constructed /\ \E i \in 1..Len(ctor) : CtorCall(i, "process_ie_result", {DownloadError})
    /\ last.op = "video_title" /\ Ok(PyStr(args.video_url))

\* C5: of a playlist, playlist_length is the number of stubs, and
\* playlist_all_ids is None when some stub has no id and the list of the
\* ids, in order, when every stub has one.
C5_PlaylistIds ==
    (Constructed /\ IsPlaylist(self)) =>
        /\ last.op = "playlist_length" => Ok(PyInt(Len(self._entries)))
        /\ last.op = "playlist_all_ids" =>
              IF \E i \in 1..Len(self._entries) : ~Has(self._entries[i], "id")
              THEN Ok(None)
              ELSE self._entries # <<>> =>
                     Ok(PyList([i \in 1..Len(self._entries) |-> self._entries[i].id]))

\* C6: on a playlist, set_playlist_entry(i) with a valid i makes entry i the
\* active entry: the stub itself, or what extract_info returns for the
\* stub's url when the stub carries ie_key; the entries stay as they were;
\* and playlist_entry_title, playlist_entry_id and playlist_entry_thumbnail
\* then read the active entry's title, id and thumbnail, so a later
\* set_playlist_entry(j) leaves nothing of entry i in them.
Selected ==
    /\ Constructed /\ IsPlaylist(self)
    /\ last'.op = "set_playlist_entry" /\ InRange(self._entries, last'.arg.v)
    /\ last'.error = NoError
SelectedEntry == PyIndex(self._entries, last'.arg.v)
ReadsOf(s) ==
    /\ PlaylistEntryTitle(s) = IF Has(s._active_entry, "title") THEN Ret(PyStr(s._active_entry.title)) ELSE Err(KeyError)
    /\ PlaylistEntryId(s) = IF Has(s._active_entry, "id") THEN Ret(PyStr(s._active_entry.id)) ELSE Err(KeyError)
    /\ PlaylistEntryThumbnail(s) = Ret(GetStr(s._active_entry, "thumbnail"))
C6_SelectStep ==
    Selected =>
        /\ self'._entries = self._entries
        /\ IF Truthy(SelectedEntry, "ie_key")
           THEN /\ Len(last'.engine) = 1
                /\ last'.engine[1].call = "extract_info" /\ last'.engine[1].arg = SelectedEntry.url
                /\ self'._active_entry = last'.engine[1].val
           ELSE /\ last'.engine = <<>>
                /\ self'._active_entry = SelectedEntry
        /\ ReadsOf(self')
C6_EntryReads ==
    (Constructed /\ IsPlaylist(self) /\ self._active_entry # None) =>
        /\ self._entries = self._preinfo.entries
        /\ (last.op = "playlist_entry_title" /\ Has(self._active_entry, "title")) =>
              Ok(PyStr(self._active_entry.title))
        /\ (last.op = "playlist_entry_id" /\ Has(self._active_entry, "id")) =>
              Ok(PyStr(self._active_entry.id))
        /\ last.op = "playlist_entry_thumbnail" => Ok(GetStr(self._active_entry, "thumbnail"))
C6_SelectEntry == []C6_EntryReads /\ [][C6_SelectStep]_vars
C6_Witness ==
    /\ Constructed /\ IsPlaylist(self) /\ Len(self._entries) = 2
    /\ Truthy(self._entries[2], "ie_key") /\ ~Truthy(self._entries[1], "ie_key")
    /\ self._active_entry # None /\ Has(self._active_entry, "title")
    /\ self._active_entry.title = <<"T1">>
    /\ last.op = "playlist_entry_title" /\ Ok(PyStr(<<"T1">>))

\* A remote item whose processed info lists formats
HasFormats == Constructed /\ ~self.is_standard_website /\ Has(self, "_info") /\ Has(self._info, "formats")
Url(f) == PyStr(f.url)

\* C7: for a Chromecast Audio the expression is
\* "bestaudio[format_id != dash-a1-x3]/best"; video_url is the url of the
\* best audio-only format other than dash-a1-x3 (A of [A, B, C]), without
\* one the url of the best format with audio and video (B of C and B), and
\* in neither case the url of dash-a1-x3.
C7_AudioPolicy ==
    (HasFormats /\ args.model = <<"Google Inc.", "Chromecast Audio">>) =>
        /\ self._best_format =
              <<Name("bestaudio"), StrFilter("format_id", "!=", "dash-a1-x3"), Slash, Name("best")>>
        /\ last.op = "video_url" =>
              LET fs == self._info.formats
                  audio == SelectSeq(fs, LAMBDA f : f.vcodec = "none" /\ f.format_id # "dash-a1-x3")
                  av == SelectSeq(fs, LAMBDA f : f.vcodec # "none" /\ f.acodec # "none")
              IN /\ fs = <<FormatA, FormatB, FormatC>> => Ok(Url(FormatA))
                 /\ fs \in {<<FormatC, FormatB>>, <<FormatB, FormatC>>} => Ok(Url(FormatB))
                 /\ audio # <<>> => Ok(Url(Last(audio)))
                 /\ (audio = <<>> /\ av # <<>>) => Ok(Url(Last(av)))
                 /\ (audio # <<>> \/ av # <<>>) => last.result # Url(FormatC)
C7_Witness ==
    /\ HasFormats /\ args.model = <<"Google Inc.", "Chromecast Audio">>
    /\ self._info.formats = <<FormatA, FormatB, FormatC>>
    /\ last.op = "video_url" /\ Ok(Url(FormatA))

\* C8: for a device in neither list (no model included) the expression is
\* the standard one; video_url is the url of the best format with audio and
\* video that is not 1080p60__source_ or 720p60 and whose width, height and
\* fps, where known, are at most 1920, 1080 and 50; a format the selector
\* yields is never one of the two excluded or over those limits.
Remaining(f) ==
    /\ f.format_id \notin {"1080p60__source_", "720p60"}
    /\ Has(f, "width") => f.width <= 1920
    /\ Has(f, "height") => f.height <= 1080
    /\ Has(f, "fps") => f.fps <= 50
Eligible(f) == Remaining(f) /\ f.vcodec # "none" /\ f.acodec # "none"
C8_StandardPolicy ==
    (HasFormats /\ args.model \notin AUDIO_MODELS \cup ULTRA_MODELS) =>
        /\ self._best_format =
              <<Name("best"), NumFilter("width", "<=?", 1920), NumFilter("height", "<=?", 1080),
                NumFilter("fps", "<=?", 50), StrFilter("format_id", "!=", "1080p60__source_"),
                StrFilter("format_id", "!=", "720p60")>>
        /\ last.op = "video_url" =>
              LET eligible == SelectSeq(self._info.formats, Eligible)
              IN /\ eligible # <<>> => Ok(Url(Last(eligible)))
                 /\ (last.error = NoError /\ last.engine[1].ret = "yield") =>
                       \E i \in 1..Len(self._info.formats) :
                           Remaining(self._info.formats[i]) /\ last.result = Url(self._info.formats[i])
C8_Witness ==
    /\ HasFormats /\ args.model = NoModel
    /\ self._info.formats = <<FormatB, CHOOSE f \in Formats : f.format_id = "720p60", FormatD>>
    /\ last.op = "video_url" /\ Ok(Url(FormatB))

\* C9: a read of video_url on a remote item, or of playlist_entry_url on a
\* playlist with an active entry, in which process_ie_result fails or the
\* selector yields no format, raises YouTubeExtractorFailedException: the
\* instance (its kind, its active entry) is as before, and the read made at
\* most one process_ie_result call and one selector call.
ReadFailed(eng) ==
    \E i \in 1..Len(eng) :
        \/ eng[i].call = "process_ie_result" /\ eng[i].ret \in {ExtractorError, DownloadError}
        \/ eng[i].call = "format_selector" /\ eng[i].ret = StopIteration
C9_ReadStep ==
    (Constructed /\ last'.op \in {"video_url", "playlist_entry_url"} /\ ReadFailed(last'.engine)) =>
        /\ last'.error = YouTubeExtractorFailedException
        /\ pc' = pc /\ self' = self /\ Kinds(self') = born
        /\ ~self'.is_standard_website
        /\ Cardinality(CallsOf(last'.engine, "process_ie_result")) <= 1
        /\ Cardinality(CallsOf(last'.engine, "format_selector")) <= 1
        /\ CallsOf(last'.engine, "extract_info") = {}
        /\ ReadFailed(SubSeq(last'.engine, Len(last'.engine), Len(last'.engine)))
C9_ReadFailurePropagates == [][C9_ReadStep]_vars
C9_Witness ==
    /\ Constructed /\ IsPlaylist(self) /\ self._active_entry # None
    /\ last.op = "playlist_entry_url" /\ last.error = YouTubeExtractorFailedException
    /\ Len(last.engine) = 2 /\ last.engine[2].ret = StopIteration

\* C10: the constructor makes at most two extract_info calls and one
\* process_ie_result call and returns: a first result carrying ie_key is
\* followed once, to its url, and the second result is kept as _preinfo
\* whether or not it carries ie_key itself.
C10_OneRedirect ==
    (pc # "new" /\ Contains(args.video_url, "://")) =>
        /\ Constructed
        /\ Cardinality(CallsOf(ctor, "extract_info")) <= 2
        /\ Cardinality(CallsOf(ctor, "process_ie_result")) <= 1
        /\ CallsOf(ctor, "format_selector") = {}
        /\ CtorCall(1, "extract_info", {"ok", DownloadError}) /\ ctor[1].arg = args.video_url
        /\ (ctor[1].ret = "ok" /\ Truthy(ctor[1].val, "ie_key")) =>
              /\ CtorCall(2, "extract_info", {"ok", DownloadError})
              /\ ctor[2].arg = ctor[1].val.url
              /\ self._preinfo = IF ctor[2].ret = "ok" THEN ctor[2].val ELSE ctor[1].val
        /\ (ctor[1].ret = "ok" /\ ~Truthy(ctor[1].val, "ie_key")) =>
              /\ CallsOf(ctor, "extract_info") = {1}
              /\ self._preinfo = ctor[1].val
C10_Witness ==
    /\ Constructed /\ CtorCall(1, "extract_info", {"ok"}) /\ CtorCall(2, "extract_info", {"ok"})
    /\ Truthy(ctor[1].val, "ie_key") /\ Truthy(ctor[2].val, "ie_key")
    /\ self._preinfo = ctor[2].val
    /\ CtorCall(3, "process_ie_result", {"ok"}) /\ Len(ctor) = 3
====
